---- MODULE Spec2Model ----
(***************************************************************************)
(* Adaptive practice session of T1_HACK: the BKT mastery model             *)
(* (src/bkt_recommend.py), the skill selection and the fetch/regenerate    *)
(* loop (src/main.py), and the persistence they use (src/db.py).           *)
(*                                                                         *)
(* Probabilities are Python floats in the source.  Here they are           *)
(* fixed-point numbers: the integer x stands for x / SCALE, products and   *)
(* quotients truncate to a multiple of 1 / SCALE.  Skill identifiers are   *)
(* non-empty strings.                                                      *)
(***************************************************************************)
EXTENDS Integers, Sequences, FiniteSets, TLC

\* ------------------------------------------------------------- numbers

\* 1.0 in fixed point.
SCALE == 10 ^ 4

Min(a, b) == IF a <= b THEN a ELSE b

\* (a * b) as a fixed-point product.
FixMul(a, b) == (a * b) \div SCALE

\* floor(a * 10^n / d) by long division, digit by digit (no wide products).
RECURSIVE LongDiv(_, _, _)
LongDiv(a, d, n) ==
    IF n = 0 THEN a \div d
    ELSE (a \div d) * (10 ^ n) + LongDiv((a % d) * 10, d, n - 1)

\* a / d as a fixed-point quotient, a and d both >= 0, d > 0.
FixDiv(a, d) == LongDiv(a, d, 4)

\* round(x, 2) of db.py, half up.
Round2(x) == ((x + 50) \div 100) * 100

\* ------------------------------------------------------------- constants

None == "None"

\* The skill universe: the first three of the eight skills of the source.
SKILL_LIST == <<"lists", "strings", "dicts">>

\* A skill identifier that is not in SKILL_LIST (a stored row, or a topic
\* the generator answered with).
OutsideSkill == "recursion"

SkillSet == {SKILL_LIST[i] : i \in 1..Len(SKILL_LIST)}

AllSkills == SkillSet \cup {OutsideSkill}

CRITICAL_SKILL_THRESHOLD == (2 * SCALE) \div 10

HIGH_SKILL_THRESHOLD == (9 * SCALE) \div 10

\* Mutant: a cap of 0.30.
RISE_CAP_wide == (30 * SCALE) \div 100

\* The largest rise of the posterior on a correct answer (0.15).
RISE_CAP == (15 * SCALE) \div 100

\* BKT.__init__ defaults.
DefaultParams ==
    [pL0 |-> SCALE \div 2, pT |-> SCALE \div 10,
     pS |-> (15 * SCALE) \div 100, pG |-> (5 * SCALE) \div 100]

Sessions == {"s1", "s2"}

\* No task: what get_task_from_db and generate_new_task return as None.
NoTask == [id |-> 0, topic |-> None, difficulty |-> None]

\* ------------------------------------------------------------- dict

\* A Python dict is the sequence of its items [k, v] in insertion order.
Keys(d) == {d[i].k : i \in 1..Len(d)}

Has(d, key) == \E i \in 1..Len(d) : d[i].k = key

\* d.get(key, default)
Get(d, key, default) ==
    IF Has(d, key) THEN d[CHOOSE i \in 1..Len(d) : d[i].k = key].v
    ELSE default

\* d[key] = value: an existing key keeps its place, a new key goes last.
Put(d, key, value) ==
    IF Has(d, key)
    THEN [i \in 1..Len(d) |->
            IF d[i].k = key THEN [k |-> key, v |-> value] ELSE d[i]]
    ELSE Append(d, [k |-> key, v |-> value])

VARIABLES
    pL0, pT, pS, pG,      \* the BKT parameters (shared defaults of BKT())
    bkt,                  \* bkt[s]: bkt_model.state of session s, a dict
    pc,                   \* pc[s]: where session s is
    calls,                \* number of update calls made (SpecBKT)
    universe,             \* universe[s]: the set the caller passed to select_skill_for_task
    available_skills,     \* available_skills[s]: the caller's set, after the call
    recommended_skill,    \* recommended_skill[s]: get_recommendation_skill's result
    skill_to_focus,       \* skill_to_focus[s]: select_skill_for_task's result
    select_path,          \* select_path[s]: the branch that returned
    update_result,        \* update_result[s]: the last update call, its result or error
    cycles,               \* the cycles argument of run_full_cycle
    cycle,                \* cycle[s]: the cycles session s has finished (the loop's i)
    used_task_ids,        \* used_task_ids[s]: the task ids presented in session s
    task,                 \* task[s]: the task session s holds, [id, topic]
    raw_task,             \* raw_task[s]: the generator's last answer to session s
    feedback,             \* feedback[s]: the analyzer's last outcome for session s
    report,               \* report[s]: overall_grade of the session's report
    cycle_log,            \* cycle_log[s]: per finished cycle its task id, 0 when skipped
    Tasks,                \* table Tasks: row id is [topic, difficulty]
    UserProgress,         \* table UserProgress: the task ids the learner attempted
    UserSkills,           \* table UserSkills of the learner: a dict of rounded levels
    attempts,             \* attempts[k]: judged attempts on skill k, all sessions
    seen,                 \* seen[s][k]: judged attempts bkt[s] reflects for skill k
    persisted,            \* persisted[k]: judged attempts the stored row of k reflects
    difficulty,           \* difficulty[s]: the label generate_new_task asked the generator for
    difficulty_range      \* difficulty_range[s]: <<min_diff, max_diff>> of generate_new_task

bktParams == <<pL0, pT, pS, pG>>

selectVars ==
    <<universe, available_skills, recommended_skill, skill_to_focus, select_path>>

dbVars == <<Tasks, UserProgress, UserSkills>>

bandVars == <<difficulty, difficulty_range>>

ghostVars == <<attempts, seen, persisted, cycle_log>>

sessionVars ==
    <<cycles, cycle, used_task_ids, task, raw_task, feedback, report, dbVars, ghostVars>>

vars == <<pL0, pT, pS, pG, bkt, pc, calls, universe, available_skills,
          recommended_skill, skill_to_focus, select_path, update_result,
          cycles, cycle, used_task_ids, task, raw_task, feedback, report,
          cycle_log, Tasks, UserProgress, UserSkills, attempts, seen, persisted,
          difficulty, difficulty_range>>

\* ------------------------------------------------------------- BKT

\* The numerator and the denominator of the posterior of update.
PosteriorNum(pL, correct) ==
    IF correct THEN pL * (SCALE - pS) ELSE pL * pS

PosteriorDen(pL, correct) ==
    IF correct
    THEN pL * (SCALE - pS) + (SCALE - pL) * pG
    ELSE pL * pS + (SCALE - pL) * (SCALE - pG)

\* update raises ZeroDivisionError when the denominator is 0.
UpdateRaises(d, skill, correct) ==
    PosteriorDen(Get(d, skill, pL0), correct) = 0

\* Mutant: the rise of the posterior is not capped.
Posterior_nocap(pL, correct) ==
    FixDiv(PosteriorNum(pL, correct), PosteriorDen(pL, correct))

\* pL_post of update.
Posterior(pL, correct) ==
    LET post == FixDiv(PosteriorNum(pL, correct), PosteriorDen(pL, correct))
    IN  IF correct THEN Min(pL + RISE_CAP, post) ELSE post

\* Mutant: the learning term subtracted.
Learn_minus(pL_post) == pL_post - FixMul(SCALE - pL_post, pT)

\* Mutant: the learning term counted twice.
Learn_twice(pL_post) == pL_post + 2 * FixMul(SCALE - pL_post, pT)

\* pL_new of update, before the clamp.
Learn(pL_post) == pL_post + FixMul(SCALE - pL_post, pT)

\* The value update stores and returns.
UpdateValue(d, skill, correct) ==
    Min(SCALE, Learn(Posterior(Get(d, skill, pL0), correct)))

\* Mutant: the mapping is replaced by the entry of the updated skill.
update_reset(d, skill, correct) ==
    IF UpdateRaises(d, skill, correct) THEN d
    ELSE <<[k |-> skill, v |-> UpdateValue(d, skill, correct)]>>

\* self.state after update(skill, correct).
update(d, skill, correct) ==
    IF UpdateRaises(d, skill, correct) THEN d
    ELSE Put(d, skill, UpdateValue(d, skill, correct))

\* update has not been called.
NoResult ==
    [value |-> -1, error |-> None, skill |-> None, correct |-> FALSE, pL |-> -1]

\* What update(skill, correct) returns, or the error it raises, with the
\* arguments of the call and the prior pL it read.
UpdateOutcome(d, skill, correct) ==
    [value |-> IF UpdateRaises(d, skill, correct) THEN -1
               ELSE UpdateValue(d, skill, correct),
     error |-> IF UpdateRaises(d, skill, correct) THEN "ZeroDivisionError" ELSE None,
     skill |-> skill,
     correct |-> correct,
     pL |-> Get(d, skill, pL0)]

\* Mutant: the last key of least value.
get_recommendation_skill_last(d) ==
    IF Len(d) = 0 THEN None
    ELSE d[CHOOSE i \in 1..Len(d) :
             /\ \A j \in 1..Len(d) : d[i].v <= d[j].v
             /\ \A j \in (i + 1)..Len(d) : d[j].v > d[i].v].k

\* min(self.state, key=self.state.get): the first key of least value.
get_recommendation_skill(d) ==
    IF Len(d) = 0 THEN None
    ELSE d[CHOOSE i \in 1..Len(d) :
             /\ \A j \in 1..Len(d) : d[i].v <= d[j].v
             /\ \A j \in 1..(i - 1) : d[j].v > d[i].v].k

\* Mutant: a level on a threshold stays in the tier below.
DifficultyBand_le(current_level) ==
    IF current_level <= (3 * SCALE) \div 10 THEN <<SCALE \div 10, (3 * SCALE) \div 10>>
    ELSE IF current_level <= (6 * SCALE) \div 10 THEN <<(2 * SCALE) \div 10, (5 * SCALE) \div 10>>
    ELSE IF current_level <= (8 * SCALE) \div 10 THEN <<(5 * SCALE) \div 10, (7 * SCALE) \div 10>>
    ELSE IF current_level <= (95 * SCALE) \div 100 THEN <<(7 * SCALE) \div 10, (9 * SCALE) \div 10>>
    ELSE <<(8 * SCALE) \div 10, SCALE>>

\* The five-tier table, <<min_diff, max_diff>>.
DifficultyBand(current_level) ==
    IF current_level < (3 * SCALE) \div 10 THEN <<SCALE \div 10, (3 * SCALE) \div 10>>
    ELSE IF current_level < (6 * SCALE) \div 10 THEN <<(2 * SCALE) \div 10, (5 * SCALE) \div 10>>
    ELSE IF current_level < (8 * SCALE) \div 10 THEN <<(5 * SCALE) \div 10, (7 * SCALE) \div 10>>
    ELSE IF current_level < (95 * SCALE) \div 100 THEN <<(7 * SCALE) \div 10, (9 * SCALE) \div 10>>
    ELSE <<(8 * SCALE) \div 10, SCALE>>

get_recommended_difficulty_range(d, skill) ==
    LET band == DifficultyBand(Get(d, skill, pL0))
    IN  IF band[1] > band[2] THEN <<band[2], band[2]>> ELSE band

\* ------------------------------------------------------------- selection

Level(d, skill) == Get(d, skill, pL0)

\* Mutant: the threshold itself counts as critical.
IsCritical_le(level) == level <= CRITICAL_SKILL_THRESHOLD

\* current_level < CRITICAL_SKILL_THRESHOLD
IsCritical(level) == level < CRITICAL_SKILL_THRESHOLD

\* current_level >= HIGH_SKILL_THRESHOLD
IsHigh(level) == level >= HIGH_SKILL_THRESHOLD

\* current_level of select_skill_for_task.
RecommendedLevel(d) ==
    LET recommended == get_recommendation_skill(d)
    IN  IF recommended # None THEN Get(d, recommended, pL0) ELSE pL0

\* The if / elif / else of select_skill_for_task.
SelectBranch(d) ==
    LET recommended == get_recommendation_skill(d)
    IN  IF recommended # None /\ IsCritical(RecommendedLevel(d)) THEN "critical"
        ELSE IF recommended # None /\ IsHigh(RecommendedLevel(d)) THEN "mastered"
        ELSE IF recommended # None THEN "normal"
        ELSE "empty"

\* available_skills after the discard and the filter of the critical branch.
CriticalCandidates(d, available) ==
    {skill \in available \ {get_recommendation_skill(d)} :
        Level(d, skill) <= HIGH_SKILL_THRESHOLD}

\* Mutant: the critical candidates are not filtered out.
NonCriticalPotential_all(d, available) == CriticalCandidates(d, available)

\* non_critical_potential
NonCriticalPotential(d, available) ==
    {skill \in CriticalCandidates(d, available) : ~IsCritical(Level(d, skill))}

\* Mutant: the mastered branch filters with <=, as the critical branch does.
MasteredCandidates_le(d, available) ==
    {skill \in available \ {get_recommendation_skill(d)} :
        Level(d, skill) <= HIGH_SKILL_THRESHOLD}

\* available_skills after the discard and the filter of the mastered branch.
MasteredCandidates(d, available) ==
    {skill \in available \ {get_recommendation_skill(d)} :
        Level(d, skill) < HIGH_SKILL_THRESHOLD}

\* min(..., key=level) over a dict built from a set: the set's iteration
\* order decides between equal keys, so any of the least may be returned.
MinLevel(d, candidates) ==
    {skill \in candidates :
        \A other \in candidates : Level(d, skill) <= Level(d, other)}

\* max(..., key=max_diff), likewise.
MaxMaxDiff(d, candidates) ==
    {skill \in candidates :
        \A other \in candidates :
            get_recommended_difficulty_range(d, skill)[2]
                >= get_recommended_difficulty_range(d, other)[2]}

\* The return statement select_skill_for_task leaves by.
SelectPath(d, available) ==
    CASE SelectBranch(d) = "critical" ->
            IF CriticalCandidates(d, available) # {}
            THEN IF NonCriticalPotential(d, available) # {}
                 THEN "critical_alternative" ELSE "critical_max_diff"
            ELSE "critical_self"
      [] SelectBranch(d) = "mastered" ->
            IF MasteredCandidates(d, available) # {}
            THEN "mastered_alternative" ELSE "mastered_random"
      [] SelectBranch(d) = "normal" -> "normal"
      [] OTHER -> "empty_random"

\* The skills select_skill_for_task(bkt_model, available_skills) may return.
select_skill_for_task(d, available) ==
    CASE SelectPath(d, available) = "critical_alternative" ->
            MinLevel(d, NonCriticalPotential(d, available))
      [] SelectPath(d, available) = "critical_max_diff" ->
            MaxMaxDiff(d, CriticalCandidates(d, available))
      [] SelectPath(d, available) = "mastered_alternative" ->
            MinLevel(d, MasteredCandidates(d, available))
      [] SelectPath(d, available) \in {"critical_self", "normal"} ->
            {get_recommendation_skill(d)}
      [] OTHER -> SkillSet

\* The caller's set after the call: both avoidance branches discard the
\* recommended skill from it (the filtered set is a new local object).
AvailableAfter(d, available) ==
    IF SelectBranch(d) \in {"critical", "mastered"}
    THEN available \ {get_recommendation_skill(d)}
    ELSE available

\* A call of select_skill_for_task by session s with the set `available`.
SelectCall(s, available) ==
    /\ \E selected \in select_skill_for_task(bkt[s], available) :
          skill_to_focus' = [skill_to_focus EXCEPT ![s] = selected]
    /\ select_path' = [select_path EXCEPT ![s] = SelectPath(bkt[s], available)]
    /\ recommended_skill' =
          [recommended_skill EXCEPT ![s] = get_recommendation_skill(bkt[s])]
    /\ universe' = [universe EXCEPT ![s] = available]
    /\ available_skills' = [available_skills EXCEPT ![s] = AvailableAfter(bkt[s], available)]

\* ------------------------------------------------------------- SpecSelect
\* select_skill_for_task applied to mastery mappings drawn from a grid.

MasteryGrid ==
    {SCALE \div 10, (2 * SCALE) \div 10, SCALE \div 2, (9 * SCALE) \div 10,
     (95 * SCALE) \div 100, (97 * SCALE) \div 100}

\* The levels the skill outside the universe is stored with.
OutsideGrid == {SCALE \div 10, SCALE \div 2}

GridItems ==
    [k : SkillSet, v : MasteryGrid] \cup [k : {OutsideSkill}, v : OutsideGrid]

\* The dicts of n of the given items, no key twice, in every order.
DictsOfLen(n, items) ==
    {d \in [1..n -> items] : \A i, j \in 1..n : i # j => d[i].k # d[j].k}

\* Every mapping over AllSkills with values of the grid, in every order.
GridDicts ==
    UNION {DictsOfLen(n, GridItems) : n \in 0..Cardinality(AllSkills)}

\* The sets a caller passes: the whole universe, or the universe without
\* its last skill.
AvailableChoices ==
    {SkillSet, SkillSet \ {SKILL_LIST[Len(SKILL_LIST)]}}

NoSession ==
    /\ available_skills = [s \in Sessions |-> {}]
    /\ universe = [s \in Sessions |-> {}]
    /\ recommended_skill = [s \in Sessions |-> None]
    /\ skill_to_focus = [s \in Sessions |-> None]
    /\ select_path = [s \in Sessions |-> None]
    /\ update_result = [s \in Sessions |-> NoResult]
    /\ calls = 0
    /\ cycle = [s \in Sessions |-> 0]
    /\ used_task_ids = [s \in Sessions |-> {}]
    /\ task = [s \in Sessions |-> NoTask]
    /\ raw_task = [s \in Sessions |-> NoTask]
    /\ feedback = [s \in Sessions |-> None]
    /\ report = [s \in Sessions |-> None]
    /\ cycle_log = [s \in Sessions |-> <<>>]
    /\ attempts = [k \in AllSkills |-> 0]
    /\ seen = [s \in Sessions |-> [k \in AllSkills |-> 0]]
    /\ persisted = [k \in AllSkills |-> 0]
    /\ difficulty = [s \in Sessions |-> None]
    /\ difficulty_range = [s \in Sessions |-> <<0, 0>>]

\* The pure-function specifications run no session and use no table.
NoTables ==
    /\ cycles = 0
    /\ Tasks = <<>>
    /\ UserProgress = {}
    /\ UserSkills = <<>>

InitSelect ==
    /\ pL0 = DefaultParams.pL0 /\ pT = DefaultParams.pT
    /\ pS = DefaultParams.pS /\ pG = DefaultParams.pG
    /\ \E d \in GridDicts : bkt = [s \in Sessions |-> IF s = "s1" THEN d ELSE <<>>]
    /\ pc = [s \in Sessions |-> IF s = "s1" THEN "call" ELSE "off"]
    /\ NoSession
    /\ NoTables

Select ==
    /\ pc["s1"] = "call"
    /\ \E available \in AvailableChoices : SelectCall("s1", available)
    /\ pc' = [pc EXCEPT !["s1"] = "selected"]
    /\ UNCHANGED <<bktParams, bandVars, bkt, calls, update_result, sessionVars>>

NextSelect == Select

SpecSelect == InitSelect /\ [][NextSelect]_vars

\* ------------------------------------------------------------- SpecBKT
\* Sequences of update calls on one BKT object, for parameters and stored
\* masteries drawn from small sets.

MaxUpdates == 2

BKTSkills == {SKILL_LIST[1], SKILL_LIST[2]}

ParamPL0 == {0, SCALE \div 2, SCALE}
ParamPT == {0, SCALE \div 10, SCALE}
ParamPS == {0, (15 * SCALE) \div 100, SCALE \div 2, SCALE - 1}
ParamPG == {0, (5 * SCALE) \div 100, SCALE \div 2, SCALE - 1}

StoredItems == [k : BKTSkills, v : {0, (3 * SCALE) \div 10, SCALE}]

InitBKT ==
    /\ pL0 \in ParamPL0 /\ pT \in ParamPT /\ pS \in ParamPS /\ pG \in ParamPG
    /\ \E d \in DictsOfLen(0, StoredItems) \cup DictsOfLen(1, StoredItems) :
          bkt = [s \in Sessions |-> IF s = "s1" THEN d ELSE <<>>]
    /\ pc = [s \in Sessions |-> IF s = "s1" THEN "bkt" ELSE "off"]
    /\ NoSession
    /\ NoTables

Update ==
    /\ pc["s1"] = "bkt"
    /\ calls < MaxUpdates
    /\ \E skill \in BKTSkills, correct \in BOOLEAN :
          /\ bkt' = [bkt EXCEPT !["s1"] = update(bkt["s1"], skill, correct)]
          /\ update_result' =
                [update_result EXCEPT !["s1"] = UpdateOutcome(bkt["s1"], skill, correct)]
    /\ calls' = calls + 1
    /\ UNCHANGED <<bktParams, bandVars, pc, selectVars, sessionVars>>

\* The read operations on the BKT object: get_recommendation_skill() and
\* get_recommended_difficulty_range(skill); neither assigns to self.state.
Read ==
    /\ pc["s1"] = "bkt"
    /\ recommended_skill' =
          [recommended_skill EXCEPT !["s1"] = get_recommendation_skill(bkt["s1"])]
    /\ \E skill \in BKTSkills :
          difficulty_range' = [difficulty_range EXCEPT !["s1"] =
                get_recommended_difficulty_range(bkt["s1"], skill)]
    /\ UNCHANGED <<bktParams, bkt, pc, calls, universe, available_skills,
                   skill_to_focus, select_path, update_result, difficulty,
                   sessionVars>>

NextBKT == Update \/ Read

SpecBKT == InitBKT /\ [][NextBKT]_vars

\* ------------------------------------------------------------- session
\* run_full_cycle: load, then `cycles` times run_single_cycle, then the report.
\* Every access to a table or a collaborator is one step of a session.

MaxCycles == 2

\* difficulty_levels of get_task_from_db.
StoreDifficulties(current_level) ==
    IF current_level < (4 * SCALE) \div 10 THEN {"easy"}
    ELSE IF current_level < (6 * SCALE) \div 10 THEN {"easy", "medium"}
    ELSE IF current_level < (8 * SCALE) \div 10 THEN {"medium", "hard"}
    ELSE {"hard"}

\* Mutant: the label is taken from the skill_level argument.
determine_difficulty_by_level(skill_level, d, skill) ==
    IF skill_level <= (33 * SCALE) \div 100 THEN "easy"
    ELSE IF skill_level <= (66 * SCALE) \div 100 THEN "medium"
    ELSE "hard"

\* determine_difficulty: the label of the lower bound of the skill's band.
determine_difficulty(skill_level, d, skill) ==
    LET min_diff == get_recommended_difficulty_range(d, skill)[1]
    IN  IF min_diff <= (33 * SCALE) \div 100 THEN "easy"
        ELSE IF min_diff <= (66 * SCALE) \div 100 THEN "medium"
        ELSE "hard"

\* skill_to_focus of get_task_from_db: a skill outside SKILL_LIST is replaced
\* by random.choice(SKILL_LIST).
FocusSkills(skill) ==
    IF skill = None \/ skill \notin SkillSet THEN SkillSet ELSE {skill}

\* The rows of Tasks with the topic and one of the difficulty levels.
StoreMatches(d, focus) ==
    {id \in 1..Len(Tasks) :
        /\ Tasks[id].topic = focus
        /\ Tasks[id].difficulty \in StoreDifficulties(Level(d, focus))}

\* The ids get_task_from_db may return (0: None): a random match the learner
\* has not attempted, else (the fallback query) a random match.
get_task_from_db(d, skill) ==
    UNION {LET matches == StoreMatches(d, focus)
               fresh == matches \ UserProgress
           IN  IF fresh # {} THEN fresh
               ELSE IF matches # {} THEN matches
               ELSE {0} : focus \in FocusSkills(skill)}

TaskOf(id) ==
    [id |-> id, topic |-> Tasks[id].topic, difficulty |-> Tasks[id].difficulty]

\* What generate_task_with_llm may answer: nothing, a task as asked for, or a
\* task of another topic and the default difficulty.
GeneratorAnswers(skill, label) ==
    {NoTask,
     [id |-> 0, topic |-> skill, difficulty |-> label],
     [id |-> 0, topic |-> OutsideSkill, difficulty |-> "easy"]}

\* What analyze_code_with_llm_and_pep8 ends with: a verdict of the analyzer,
\* or "failed" when the call raised or its answer could not be parsed.
AnalyzerOutcomes == {"correct", "incorrect", "failed"}

\* feedback.get('correct', False): every failure feedback has correct False.
FeedbackCorrect(outcome) == outcome = "correct"

\* The rows of a table in any order (a SELECT without ORDER BY).
Perms(d) == DictsOfLen(Len(d), {d[i] : i \in 1..Len(d)})

RECURSIVE SumLevels(_)
SumLevels(d) == IF Len(d) = 0 THEN 0 ELSE d[1].v + SumLevels(Tail(d))

\* avg_skill_level >= threshold, as the float mean decides it: the outcomes
\* of the comparison.  sum(...) / len(...) of several levels whose mean is
\* exactly the threshold may be computed just below it (0.1 and 0.7 give
\* 0.39999999999999997) or not (0.2 and 0.6 give 0.4); one level is exact.
MeanAtLeast(skills_data, threshold) ==
    LET n == Len(skills_data)
    IN  IF n = 0 THEN {0 >= threshold}
        ELSE IF SumLevels(skills_data) > threshold * n THEN {TRUE}
        ELSE IF SumLevels(skills_data) < threshold * n THEN {FALSE}
        ELSE IF n = 1 THEN {TRUE}
        ELSE BOOLEAN

\* overall_grade of generate_user_report: the grades the if / elif chain
\* may end with.
Grade(skills_data) ==
    LET ge8 == MeanAtLeast(skills_data, (8 * SCALE) \div 10)
        ge6 == MeanAtLeast(skills_data, (6 * SCALE) \div 10)
        ge4 == MeanAtLeast(skills_data, (4 * SCALE) \div 10)
        ge2 == MeanAtLeast(skills_data, (2 * SCALE) \div 10)
    IN  {g \in {"Expert", "Advanced", "Intermediate", "Beginner", "New"} :
            \/ g = "Expert" /\ TRUE \in ge8
            \/ g = "Advanced" /\ FALSE \in ge8 /\ TRUE \in ge6
            \/ g = "Intermediate" /\ FALSE \in ge6 /\ TRUE \in ge4
            \/ g = "Beginner" /\ FALSE \in ge4 /\ TRUE \in ge2
            \/ g = "New" /\ FALSE \in ge2}

\* update_user_bkt_state: every item of the dict upserted, rounded.
RECURSIVE Upsert(_, _)
Upsert(rows, d) ==
    IF Len(d) = 0 THEN rows
    ELSE Upsert(Put(rows, d[1].k, Round2(d[1].v)), Tail(d))

\* load_or_init_bkt and used_task_ids = set().
Load(s) ==
    /\ pc[s] = "start"
    /\ \E d \in Perms(UserSkills) : bkt' = [bkt EXCEPT ![s] = d]
    /\ seen' = [seen EXCEPT ![s] = persisted]
    /\ used_task_ids' = [used_task_ids EXCEPT ![s] = {}]
    /\ pc' = [pc EXCEPT ![s] = "cycle"]
    /\ UNCHANGED <<bktParams, bandVars, calls, selectVars, update_result, cycles, cycle, task,
                   raw_task, feedback, report, dbVars, attempts, persisted, cycle_log>>

\* run_single_cycle: select_skill_for_task(bkt_model, set(SKILL_LIST)).
SelectSkill(s) ==
    /\ pc[s] = "cycle"
    /\ cycle[s] < cycles
    /\ SelectCall(s, SkillSet)
    /\ pc' = [pc EXCEPT ![s] = "fetch"]
    /\ UNCHANGED <<bktParams, bandVars, bkt, calls, update_result, sessionVars>>

\* FETCH_EXISTING: get_task_from_db; a miss goes on to generate.
FetchExisting(s) ==
    /\ pc[s] = "fetch"
    /\ \E id \in get_task_from_db(bkt[s], skill_to_focus[s]) :
          /\ task' = [task EXCEPT ![s] = IF id = 0 THEN NoTask ELSE TaskOf(id)]
          /\ pc' = [pc EXCEPT ![s] = IF id = 0 THEN "generate" ELSE "dedup"]
    /\ UNCHANGED <<bktParams, bandVars, bkt, calls, selectVars, update_result, cycles, cycle,
                   used_task_ids, raw_task, feedback, report, dbVars, ghostVars>>

\* Mutant: a failed generation ends the session.
SkipCycle_abort(s) ==
    /\ task' = [task EXCEPT ![s] = NoTask]
    /\ cycle' = [cycle EXCEPT ![s] = cycles]
    /\ cycle_log' = [cycle_log EXCEPT ![s] = Append(@, 0)]
    /\ pc' = [pc EXCEPT ![s] = "done"]

\* get_or_generate_task returns None, run_single_cycle returns False and
\* the loop of run_full_cycle goes on.
SkipCycle(s) ==
    /\ task' = [task EXCEPT ![s] = NoTask]
    /\ cycle' = [cycle EXCEPT ![s] = @ + 1]
    /\ cycle_log' = [cycle_log EXCEPT ![s] = Append(@, 0)]
    /\ pc' = [pc EXCEPT ![s] = "cycle"]

\* Mutant: on REGENERATE the generator's task comes back with the id the
\* session already holds, and nothing is inserted.
Generate_reuse(s) ==
    /\ pc[s] = "generate"
    /\ IF task[s].id = 0
       THEN SkipCycle(s) /\ raw_task' = [raw_task EXCEPT ![s] = NoTask]
       ELSE /\ raw_task' = [raw_task EXCEPT ![s] = task[s]]
            /\ pc' = [pc EXCEPT ![s] = "dedup"]
            /\ UNCHANGED <<task, cycle, cycle_log>>
    /\ UNCHANGED <<bktParams, bandVars, bkt, calls, selectVars, update_result, cycles,
                   used_task_ids, feedback, report, dbVars, attempts, seen, persisted>>

\* GENERATE_ON_MISS and REGENERATE: generate_new_task.
Generate(s) ==
    /\ pc[s] = "generate"
    /\ \E answer \in GeneratorAnswers(skill_to_focus[s],
                        determine_difficulty(Level(bkt[s], skill_to_focus[s]),
                                             bkt[s], skill_to_focus[s])) :
          /\ raw_task' = [raw_task EXCEPT ![s] = answer]
          /\ difficulty' = [difficulty EXCEPT ![s] =
                determine_difficulty(Level(bkt[s], skill_to_focus[s]),
                                     bkt[s], skill_to_focus[s])]
          /\ difficulty_range' = [difficulty_range EXCEPT ![s] =
                get_recommended_difficulty_range(bkt[s], skill_to_focus[s])]
          /\ IF answer = NoTask
             THEN SkipCycle(s) /\ UNCHANGED Tasks
             ELSE /\ Tasks' = Append(Tasks, [topic |-> answer.topic,
                                             difficulty |-> answer.difficulty])
                  /\ task' = [task EXCEPT ![s] = [answer EXCEPT !.id = Len(Tasks) + 1]]
                  /\ pc' = [pc EXCEPT ![s] = "dedup"]
                  /\ UNCHANGED <<cycle, cycle_log>>
    /\ UNCHANGED <<bktParams, bkt, calls, selectVars, update_result, cycles,
                   used_task_ids, feedback, report, UserProgress, UserSkills,
                   attempts, seen, persisted>>

\* Mutant: no task counts as already presented.
AlreadyUsed_never(s) == FALSE

\* task['id'] in used_task_ids
AlreadyUsed(s) == task[s].id \in used_task_ids[s]

\* Mutant: the set is replaced by the new id.
AddUsed_reset(used, id) == {id}

\* used_task_ids.add(task['id'])
AddUsed(used, id) == used \cup {id}

\* DEDUP_CHECK: REGENERATE when the id was presented, else ACCEPT.
DedupCheck(s) ==
    /\ pc[s] = "dedup"
    /\ IF AlreadyUsed(s)
       THEN /\ pc' = [pc EXCEPT ![s] = "generate"]
            /\ UNCHANGED used_task_ids
       ELSE /\ used_task_ids' =
                  [used_task_ids EXCEPT ![s] = AddUsed(@, task[s].id)]
            /\ pc' = [pc EXCEPT ![s] = "judge"]
    /\ UNCHANGED <<bktParams, bandVars, bkt, calls, selectVars, update_result, cycles, cycle,
                   task, raw_task, feedback, report, dbVars, ghostVars>>

\* analyze_code_with_llm_and_pep8, then bkt_model.update(task['topic'], correct).
Judge(s) ==
    /\ pc[s] = "judge"
    /\ \E outcome \in AnalyzerOutcomes :
          /\ feedback' = [feedback EXCEPT ![s] = outcome]
          /\ bkt' = [bkt EXCEPT ![s] = update(@, task[s].topic, FeedbackCorrect(outcome))]
          /\ update_result' =
                [update_result EXCEPT ![s] =
                    UpdateOutcome(bkt[s], task[s].topic, FeedbackCorrect(outcome))]
    /\ attempts' = [attempts EXCEPT ![task[s].topic] = @ + 1]
    /\ seen' = [seen EXCEPT ![s][task[s].topic] = @ + 1]
    /\ pc' = [pc EXCEPT ![s] = "save_attempt"]
    /\ UNCHANGED <<bktParams, bandVars, calls, selectVars, cycles, cycle, used_task_ids, task,
                   raw_task, report, dbVars, persisted, cycle_log>>

\* save_user_attempt
SaveAttempt(s) ==
    /\ pc[s] = "save_attempt"
    /\ UserProgress' = UserProgress \cup {task[s].id}
    /\ pc' = [pc EXCEPT ![s] = "save_bkt"]
    /\ UNCHANGED <<bktParams, bandVars, bkt, calls, selectVars, update_result, cycles, cycle,
                   used_task_ids, task, raw_task, feedback, report, Tasks, UserSkills,
                   ghostVars>>

\* update_user_bkt_state, and the cycle returns True.
SaveBkt(s) ==
    /\ pc[s] = "save_bkt"
    /\ UserSkills' = Upsert(UserSkills, bkt[s])
    /\ persisted' = [k \in AllSkills |->
                        IF Has(bkt[s], k) THEN seen[s][k] ELSE persisted[k]]
    /\ cycle' = [cycle EXCEPT ![s] = @ + 1]
    /\ cycle_log' = [cycle_log EXCEPT ![s] = Append(@, task[s].id)]
    /\ pc' = [pc EXCEPT ![s] = "cycle"]
    /\ UNCHANGED <<bktParams, bandVars, bkt, calls, selectVars, update_result, cycles,
                   used_task_ids, task, raw_task, feedback, report, Tasks,
                   UserProgress, attempts, seen>>

\* Mutant: the report is produced one cycle early.
Report_early(s) ==
    /\ pc[s] = "cycle"
    /\ cycle[s] >= cycles - 1
    /\ \E grade \in Grade(UserSkills) : report' = [report EXCEPT ![s] = grade]
    /\ pc' = [pc EXCEPT ![s] = "done"]
    /\ UNCHANGED <<bktParams, bandVars, bkt, calls, selectVars, update_result, cycles,
                   cycle, used_task_ids, task, raw_task, feedback, dbVars, ghostVars>>

\* generate_user_report after the loop.
Report(s) ==
    /\ pc[s] = "cycle"
    /\ cycle[s] >= cycles
    /\ \E grade \in Grade(UserSkills) : report' = [report EXCEPT ![s] = grade]
    /\ pc' = [pc EXCEPT ![s] = "done"]
    /\ UNCHANGED <<bktParams, bandVars, bkt, calls, selectVars, update_result, cycles, cycle,
                   used_task_ids, task, raw_task, feedback, dbVars, ghostVars>>

Next ==
    \E s \in Sessions :
        \/ Load(s)
        \/ SelectSkill(s)
        \/ FetchExisting(s)
        \/ Generate(s)
        \/ DedupCheck(s)
        \/ Judge(s)
        \/ SaveAttempt(s)
        \/ SaveBkt(s)
        \/ Report(s)

\* The tables a session may find.
InitTasks ==
    {<<>>,
     <<[topic |-> SKILL_LIST[1], difficulty |-> "easy"]>>,
     <<[topic |-> SKILL_LIST[1], difficulty |-> "easy"],
       [topic |-> SKILL_LIST[1], difficulty |-> "medium"]>>}

InitUserSkills ==
    {<<>>,
     <<[k |-> SKILL_LIST[1], v |-> SCALE \div 2]>>,
     <<[k |-> SKILL_LIST[1], v |-> SCALE \div 10],
       [k |-> SKILL_LIST[2], v |-> (95 * SCALE) \div 100]>>}

InitTables ==
    /\ pL0 = DefaultParams.pL0 /\ pT = DefaultParams.pT
    /\ pS = DefaultParams.pS /\ pG = DefaultParams.pG
    /\ bkt = [s \in Sessions |-> <<>>]
    /\ Tasks \in InitTasks
    /\ UserProgress \in SUBSET (1..Min(1, Len(Tasks)))
    /\ UserSkills \in InitUserSkills
    /\ NoSession

\* One session of MaxCycles cycles.
Init ==
    /\ InitTables
    /\ cycles = MaxCycles
    /\ pc = [s \in Sessions |-> IF s = "s1" THEN "start" ELSE "off"]

Spec == Init /\ [][Next]_vars

\* One session that keeps running: run_full_cycle is a sequential program,
\* every step that can be taken is taken.
FairSpec == Init /\ [][Next]_vars /\ WF_vars(Next)

\* Two sessions of the same learner, one cycle each, at the same time.
InitConc ==
    /\ InitTables
    /\ cycles = 1
    /\ pc = [s \in Sessions |-> "start"]

SpecConc == InitConc /\ [][Next]_vars

\* ------------------------------------------------------------- SpecBand
\* The difficulty band and the difficulty label of generate_new_task, for
\* masteries on and around the tier thresholds.

BandGrid ==
    {0, (25 * SCALE) \div 100, (3 * SCALE) \div 10 - 1, (3 * SCALE) \div 10,
     SCALE \div 2, (6 * SCALE) \div 10 - 1, (6 * SCALE) \div 10,
     (7 * SCALE) \div 10, (8 * SCALE) \div 10 - 1, (8 * SCALE) \div 10,
     (9 * SCALE) \div 10, (95 * SCALE) \div 100 - 1, (95 * SCALE) \div 100,
     (97 * SCALE) \div 100, SCALE}

BandPL0 == {(3 * SCALE) \div 10, SCALE \div 2, (95 * SCALE) \div 100}

BandItems == [k : BKTSkills, v : BandGrid]

InitBand ==
    /\ pL0 \in BandPL0 /\ pT = DefaultParams.pT
    /\ pS = DefaultParams.pS /\ pG = DefaultParams.pG
    /\ \E d \in DictsOfLen(0, BandItems) \cup DictsOfLen(1, BandItems) :
          bkt = [s \in Sessions |-> IF s = "s1" THEN d ELSE <<>>]
    /\ pc = [s \in Sessions |-> IF s = "s1" THEN "band" ELSE "off"]
    /\ NoSession
    /\ NoTables

\* generate_new_task up to the call of the generator: determine_difficulty
\* with any skill_level argument, and the band of the skill.
Band ==
    /\ pc["s1"] = "band"
    /\ \E skill \in BKTSkills, skill_level \in BandGrid :
          /\ skill_to_focus' = [skill_to_focus EXCEPT !["s1"] = skill]
          /\ difficulty' = [difficulty EXCEPT !["s1"] =
                determine_difficulty(skill_level, bkt["s1"], skill)]
          /\ difficulty_range' = [difficulty_range EXCEPT !["s1"] =
                get_recommended_difficulty_range(bkt["s1"], skill)]
    /\ pc' = [pc EXCEPT !["s1"] = "banded"]
    /\ UNCHANGED <<bktParams, bkt, calls, universe, available_skills,
                   recommended_skill, select_path, update_result, sessionVars>>

NextBand == Band

SpecBand == InitBand /\ [][NextBand]_vars

\* ------------------------------------------------------------- SpecReport
\* run_full_cycle(cycles = 0): the stored masteries are loaded and the report
\* is produced, for stored levels on and between the grade thresholds.

ReportGrid ==
    {SCALE \div 10, (2 * SCALE) \div 10, (4 * SCALE) \div 10, (6 * SCALE) \div 10,
     (7 * SCALE) \div 10, (8 * SCALE) \div 10, SCALE}

ReportItems == [k : BKTSkills, v : ReportGrid]

InitReport ==
    /\ pL0 = DefaultParams.pL0 /\ pT = DefaultParams.pT
    /\ pS = DefaultParams.pS /\ pG = DefaultParams.pG
    /\ bkt = [s \in Sessions |-> <<>>]
    /\ Tasks = <<>>
    /\ UserProgress = {}
    /\ UserSkills \in UNION {DictsOfLen(n, ReportItems) : n \in 0..Cardinality(BKTSkills)}
    /\ cycles = 0
    /\ pc = [s \in Sessions |-> IF s = "s1" THEN "start" ELSE "off"]
    /\ NoSession

NextReport == Load("s1") \/ Report("s1")

SpecReport == InitReport /\ [][NextReport]_vars

\* ------------------------------------------------------------- properties

IndexOf(d, key) == CHOOSE i \in 1..Len(d) : d[i].k = key

\* The least stored mastery of a non-empty dict.
LowestObserved(d) ==
    CHOOSE v \in {d[i].v : i \in 1..Len(d)} : \A i \in 1..Len(d) : v <= d[i].v

\* The dict d holds exactly the mapping f, in any order.
IsMapping(d, f) ==
    /\ Keys(d) = DOMAIN f
    /\ \A key \in DOMAIN f : Get(d, key, -1) = f[key]

\* C1: after any sequence of update calls, started from masteries in [0, 1]
\* with pT in [0, 1] and pS, pG in [0, 1), every stored mastery is in [0, 1].
C1_MasteryInUnitInterval ==
    \A s \in Sessions : \A i \in 1..Len(bkt[s]) :
        bkt[s][i].v >= 0 /\ bkt[s][i].v <= SCALE

\* Two updates were made and the last one stored the mastery 1.0.
C1_Witness ==
    /\ calls >= 2
    /\ update_result["s1"].value = SCALE
    /\ \E i \in 1..Len(bkt["s1"]) : bkt["s1"][i].v = SCALE

\* C7: get_recommendation_skill returns None when no skill is observed;
\* otherwise an observed skill of least mastery, and among several of least
\* mastery the one that was added first.
C7_RecommendationIsFirstMinimum ==
    pc["s1"] = "selected" =>
        LET d == bkt["s1"]
            r == recommended_skill["s1"]
        IN  /\ (Len(d) = 0) <=> (r = None)
            /\ Len(d) > 0 =>
                  /\ r \in Keys(d)
                  /\ \A i \in 1..Len(d) : Get(d, r, -1) <= d[i].v
                  /\ \A i \in 1..Len(d) :
                        (d[i].v = Get(d, r, -1) /\ d[i].k # r) => IndexOf(d, r) < i

\* Two skills tie at the least mastery, neither is the first entry, and the
\* earlier of the two was returned.
C7_Witness ==
    /\ pc["s1"] = "selected"
    /\ \E i, j \in 2..Len(bkt["s1"]) :
          /\ i < j
          /\ bkt["s1"][i].v = bkt["s1"][j].v
          /\ bkt["s1"][i].v = LowestObserved(bkt["s1"])
          /\ bkt["s1"][1].v > bkt["s1"][i].v
          /\ recommended_skill["s1"] = bkt["s1"][i].k

\* C8: when the lowest observed mastery m satisfies 0.20 <= m < 0.90,
\* select_skill_for_task returns the skill get_recommendation_skill returns.
C8_NormalSelectsRecommended ==
    (pc["s1"] = "selected" /\ Len(bkt["s1"]) > 0
        /\ LowestObserved(bkt["s1"]) >= (20 * SCALE) \div 100
        /\ LowestObserved(bkt["s1"]) < (90 * SCALE) \div 100)
    => /\ skill_to_focus["s1"] = recommended_skill["s1"]
       /\ skill_to_focus["s1"] = get_recommendation_skill(bkt["s1"])
       /\ Get(bkt["s1"], skill_to_focus["s1"], -1) = LowestObserved(bkt["s1"])

\* The lowest mastery is exactly 0.20, other skills are observed too, and
\* the lowest one was selected.
C8_Witness ==
    /\ pc["s1"] = "selected"
    /\ Len(bkt["s1"]) >= 2
    /\ LowestObserved(bkt["s1"]) = (20 * SCALE) \div 100
    /\ skill_to_focus["s1"] = recommended_skill["s1"]

\* The candidates of the claims: the skills of the caller's set other than
\* the recommended one whose mastery (pL0 when unobserved) is below 0.90.
NotMasteredOthers(s) ==
    {skill \in universe[s] \ {recommended_skill[s]} :
        Get(bkt[s], skill, pL0) < (90 * SCALE) \div 100}

NotCriticalOthers(s) ==
    {skill \in NotMasteredOthers(s) : Get(bkt[s], skill, pL0) >= (20 * SCALE) \div 100}

LeastOf(s, candidates) ==
    /\ skill_to_focus[s] \in candidates
    /\ \A other \in candidates :
          Get(bkt[s], skill_to_focus[s], pL0) <= Get(bkt[s], other, pL0)

ExampleC9 ==
    ("lists" :> SCALE \div 10) @@ ("strings" :> SCALE \div 2)
        @@ ("dicts" :> (95 * SCALE) \div 100)

\* C9: when the lowest observed mastery is below 0.20 and, the lowest skill
\* and the mastered candidates removed, some remaining candidate has mastery
\* >= 0.20, select_skill_for_task returns a remaining non-critical candidate
\* of least mastery; for {A: 0.1, B: 0.5, C: 0.95} over {A, B, C} it is B.
C9_CriticalAvoidance ==
    (pc["s1"] = "selected" /\ Len(bkt["s1"]) > 0
        /\ LowestObserved(bkt["s1"]) < (20 * SCALE) \div 100)
    => /\ NotCriticalOthers("s1") # {} => LeastOf("s1", NotCriticalOthers("s1"))
       /\ (IsMapping(bkt["s1"], ExampleC9) /\ universe["s1"] = SkillSet)
             => skill_to_focus["s1"] = "strings"

\* The example of the claim: B (strings) was selected.
C9_Witness ==
    /\ pc["s1"] = "selected"
    /\ IsMapping(bkt["s1"], ExampleC9)
    /\ universe["s1"] = SkillSet
    /\ select_path["s1"] = "critical_alternative"
    /\ skill_to_focus["s1"] = "strings"

ExampleC10 ==
    ("lists" :> (95 * SCALE) \div 100) @@ ("strings" :> (97 * SCALE) \div 100)

\* The rule of C10 without its example: in the mastered regime the result is
\* a candidate below 0.90 of least mastery when there is one, and otherwise
\* a member of SKILL_LIST chosen by random.choice.
MasteredRule(s) ==
    (pc[s] = "selected" /\ Len(bkt[s]) > 0
        /\ LowestObserved(bkt[s]) >= (90 * SCALE) \div 100)
    => IF NotMasteredOthers(s) # {}
       THEN LeastOf(s, NotMasteredOthers(s)) /\ select_path[s] = "mastered_alternative"
       ELSE select_path[s] = "mastered_random" /\ skill_to_focus[s] \in SkillSet

\* C10 as claimed: the rule, and for observed masteries {A: 0.95, B: 0.97}
\* the result is the random fallback.
C10_Original ==
    /\ MasteredRule("s1")
    /\ (pc["s1"] = "selected" /\ IsMapping(bkt["s1"], ExampleC10))
          => select_path["s1"] = "mastered_random"

\* C10 as amended: the rule, and for observed masteries {A: 0.95, B: 0.97}
\* the result is the random fallback when the caller's set is {A, B}; when
\* the set holds an unobserved skill, that skill (mastery pL0 = 0.5) or
\* another unobserved one is returned.
C10_MasteredAvoidance ==
    /\ MasteredRule("s1")
    /\ (pc["s1"] = "selected" /\ IsMapping(bkt["s1"], ExampleC10))
          => IF universe["s1"] \subseteq DOMAIN ExampleC10
             THEN select_path["s1"] = "mastered_random"
             ELSE /\ select_path["s1"] = "mastered_alternative"
                  /\ skill_to_focus["s1"] \in universe["s1"] \ DOMAIN ExampleC10

\* The example over the set {A, B}: the random fallback returned the skill
\* the regime steers away from.
C10_Witness ==
    /\ pc["s1"] = "selected"
    /\ IsMapping(bkt["s1"], ExampleC10)
    /\ universe["s1"] = DOMAIN ExampleC10
    /\ select_path["s1"] = "mastered_random"
    /\ skill_to_focus["s1"] = recommended_skill["s1"]

\* The ids of the tasks session s was given in its finished cycles.
LoggedIds(s) == {cycle_log[s][i] : i \in 1..Len(cycle_log[s])} \ {0}

\* Session s holds a task get_or_generate_task returned.
HoldsAcceptedTask(s) == pc[s] \in {"judge", "save_attempt", "save_bkt"}

\* C2: within one session every task get_or_generate_task returns has an id
\* that was not in used_task_ids before, so no id is presented twice,
\* whatever the store and the generator answer.
C2_NoTaskPresentedTwice ==
    \A s \in Sessions :
        /\ \A i, j \in 1..Len(cycle_log[s]) :
              (i # j /\ cycle_log[s][i] # 0) => cycle_log[s][i] # cycle_log[s][j]
        /\ LoggedIds(s) \subseteq used_task_ids[s]
        /\ HoldsAcceptedTask(s) =>
              /\ task[s].id \notin LoggedIds(s)
              /\ task[s].id \in used_task_ids[s]

\* The store answered with a task of an earlier cycle of this session and
\* the dedup check sent the session to regenerate.
C2_Witness ==
    /\ pc["s1"] = "generate"
    /\ task["s1"].id # 0
    /\ task["s1"].id \in LoggedIds("s1")

\* C3: every step leaves used_task_ids of a session as it is or adds exactly
\* one id that was not in it; no id is ever removed.
C3_UsedSetGrowsByOne ==
    [][\A s \in Sessions :
          \/ used_task_ids'[s] = used_task_ids[s]
          \/ \E id \in used_task_ids'[s] \ used_task_ids[s] :
                used_task_ids'[s] = used_task_ids[s] \cup {id}]_vars

\* Two ids were added in one session.
C3_Witness == Cardinality(used_task_ids["s1"]) = 2

\* C4: when the generator returns no task the cycle is skipped: the used
\* ids, every mastery (in memory and stored) stay as they were, and the
\* session goes on with the next cycle.
C4_GenerationFailureSkipsCycle ==
    [][\A s \in Sessions :
          (pc[s] = "generate" /\ pc'[s] # "generate" /\ raw_task'[s] = NoTask)
          => /\ used_task_ids' = used_task_ids
             /\ bkt' = bkt
             /\ UserSkills' = UserSkills
             /\ task'[s] = NoTask
             /\ cycle'[s] = cycle[s] + 1
             /\ pc'[s] = "cycle"]_vars

\* The first cycle was skipped and the second one was judged and saved.
C4_Witness ==
    /\ Len(cycle_log["s1"]) = 2
    /\ cycle_log["s1"][1] = 0
    /\ cycle_log["s1"][2] # 0
    /\ Len(bkt["s1"]) > 0

\* C5: when the analyzer fails, no mastery update is made for the cycle: the
\* mastery mapping after the cycle equals the mapping before it.
C5_AnalyzerFailureKeepsMastery ==
    [][\A s \in Sessions :
          (pc[s] = "judge" /\ pc'[s] # "judge" /\ feedback'[s] = "failed")
          => bkt'[s] = bkt[s]]_vars

\* C6: when two sessions of one learner run at the same time, the stored
\* mastery after both finish reflects every judged attempt.
C6_NoLostUpdate ==
    (\A s \in Sessions : pc[s] = "done")
    => \A k \in AllSkills : persisted[k] = attempts[k]

\* C11: select_skill_for_task is deterministic outside the empty-history and
\* the all-mastered path: every call with the same mastery mapping and the
\* same set returns the skill this call returned, ties included.
C11_SelectionIsDeterministic ==
    (pc["s1"] = "selected"
        /\ select_path["s1"] \notin {"empty_random", "mastered_random"})
    => \A other \in select_skill_for_task(bkt["s1"], universe["s1"]) :
          other = skill_to_focus["s1"]

\* C12: a call of select_skill_for_task leaves the mastery mapping, the BKT
\* parameters and the set the caller passed as they were.
C12_SelectionHasNoSideEffect ==
    [][(pc["s1"] = "call" /\ pc'["s1"] = "selected")
        => /\ bkt' = bkt
           /\ bktParams' = bktParams
           /\ available_skills'["s1"] = universe'["s1"]]_vars

\* C20: in the critical regime every candidate at or above HIGH is removed,
\* so the skill returned is the critical skill itself or one strictly below
\* HIGH.
C20_CriticalNeverReturnsHigh ==
    (pc["s1"] = "selected"
        /\ select_path["s1"] \in {"critical_alternative", "critical_max_diff",
                                  "critical_self"})
    => \/ skill_to_focus["s1"] = recommended_skill["s1"]
       \/ Level(bkt["s1"], skill_to_focus["s1"]) < HIGH_SKILL_THRESHOLD

\* The last update call of the BKT object under SpecBKT.
LastUpdate == update_result["s1"]

\* update was called and returned a value.
Returned == LastUpdate.skill # None /\ LastUpdate.error = None

\* pS and pG are both strictly between 0 and 1.
OpenParams == 0 < pS /\ pS < SCALE /\ 0 < pG /\ pG < SCALE

\* The posterior as the formula of the mastery update states it.
StatedPosterior(pL, correct) ==
    IF correct
    THEN Min(pL + (15 * SCALE) \div 100,
             FixDiv(pL * (SCALE - pS), pL * (SCALE - pS) + (SCALE - pL) * pG))
    ELSE FixDiv(pL * pS, pL * pS + (SCALE - pL) * (SCALE - pG))

StatedUpdate(pL, correct) ==
    Min(SCALE, StatedPosterior(pL, correct)
                  + FixMul(SCALE - StatedPosterior(pL, correct), pT))

Within(x, y, eps) == x - y <= eps /\ y - x <= eps

\* C13: update(skill, correct) reads the stored mastery (pL0 for an unseen
\* skill), stores and returns min(1, pPost + (1 - pPost) * pT) with the
\* capped posterior on a correct answer and the uncapped one otherwise; with
\* the default parameters a first correct update gives 0.685 and a first
\* incorrect one 0.2227, within 0.001.
C13_UpdateFormula ==
    [][(calls' = calls + 1 /\ update_result'["s1"].error = None)
        => LET r == update_result'["s1"]
           IN  /\ r.pL = Get(bkt["s1"], r.skill, pL0)
               /\ r.value = StatedUpdate(r.pL, r.correct)
               /\ Has(bkt'["s1"], r.skill)
               /\ Get(bkt'["s1"], r.skill, pL0) = r.value
               /\ (<<pL0, pT, pS, pG>> = <<SCALE \div 2, SCALE \div 10,
                                          (15 * SCALE) \div 100, (5 * SCALE) \div 100>>
                      /\ r.pL = pL0)
                   => IF r.correct
                      THEN Within(r.value, (685 * SCALE) \div 1000, SCALE \div 1000)
                      ELSE Within(r.value, (2227 * SCALE) \div 10000, SCALE \div 1000)]_vars

\* A first correct update of an unseen skill with the default parameters:
\* the cap held the posterior at 0.65 and 0.685 was stored.
C13_Witness ==
    /\ <<pL0, pT, pS, pG>> = <<DefaultParams.pL0, DefaultParams.pT,
                              DefaultParams.pS, DefaultParams.pG>>
    /\ calls = 1
    /\ LastUpdate.correct /\ LastUpdate.pL = pL0
    /\ LastUpdate.value = (685 * SCALE) \div 1000
    /\ bkt["s1"] = <<[k |-> LastUpdate.skill, v |-> LastUpdate.value]>>

C16_NoDivisionFault ==
    LastUpdate.error # "ZeroDivisionError"

\* The band the tier table states for a mastery m.
StatedBand(m) ==
    CASE m < (30 * SCALE) \div 100 -> <<(10 * SCALE) \div 100, (30 * SCALE) \div 100>>
      [] m >= (30 * SCALE) \div 100 /\ m < (60 * SCALE) \div 100 ->
            <<(20 * SCALE) \div 100, (50 * SCALE) \div 100>>
      [] m >= (60 * SCALE) \div 100 /\ m < (80 * SCALE) \div 100 ->
            <<(50 * SCALE) \div 100, (70 * SCALE) \div 100>>
      [] m >= (80 * SCALE) \div 100 /\ m < (95 * SCALE) \div 100 ->
            <<(70 * SCALE) \div 100, (90 * SCALE) \div 100>>
      [] m >= (95 * SCALE) \div 100 -> <<(80 * SCALE) \div 100, SCALE>>

\* The mastery of the skill the band was computed for.
BandedLevel == Get(bkt["s1"], skill_to_focus["s1"], pL0)

\* C17: get_recommended_difficulty_range returns the band of the five-tier
\* table for the skill's mastery (pL0 for an unseen skill), and its minimum
\* never exceeds its maximum.
C17_BandTable ==
    pc["s1"] = "banded"
    => /\ difficulty_range["s1"] = StatedBand(BandedLevel)
       /\ difficulty_range["s1"][1] <= difficulty_range["s1"][2]

\* The band of a mastery of exactly 0.95 is (0.8, 1.0).
C17_Witness ==
    /\ pc["s1"] = "banded"
    /\ Has(bkt["s1"], skill_to_focus["s1"])
    /\ BandedLevel = (95 * SCALE) \div 100
    /\ difficulty_range["s1"] = <<(8 * SCALE) \div 10, SCALE>>

\* The label stated for a lower bound.
StatedLabel(min_diff) ==
    IF min_diff <= (33 * SCALE) \div 100 THEN "easy"
    ELSE IF min_diff <= (66 * SCALE) \div 100 THEN "medium"
    ELSE "hard"

\* C18: the difficulty label asked of the generator is computed from the
\* lower bound of the skill's band alone; the skill_level argument has no
\* influence on it.
C18_LabelFromLowerBound ==
    \A s \in Sessions :
        difficulty[s] # None
        => /\ difficulty[s] = StatedLabel(difficulty_range[s][1])
           /\ \A skill_level \in BandGrid :
                 determine_difficulty(skill_level, bkt[s], skill_to_focus[s])
                    = difficulty[s]

\* A mastery of 0.7 has the band (0.5, 0.7) and the label medium.
C18_Witness ==
    /\ pc["s1"] = "banded"
    /\ BandedLevel = (7 * SCALE) \div 10
    /\ difficulty_range["s1"][1] = SCALE \div 2
    /\ difficulty["s1"] = "medium"

\* The grade stated for the stored levels: by their arithmetic mean.
StatedGrade(skills_data) ==
    LET n == Len(skills_data)
        total == SumLevels(skills_data)
    IN  IF n = 0 THEN "New"
        ELSE IF 10 * total >= 8 * SCALE * n THEN "Expert"
        ELSE IF 10 * total >= 6 * SCALE * n THEN "Advanced"
        ELSE IF 10 * total >= 4 * SCALE * n THEN "Intermediate"
        ELSE IF 10 * total >= 2 * SCALE * n THEN "Beginner"
        ELSE "New"

\* C19: the report grade is the one the arithmetic mean of the stored
\* masteries falls in (New without a stored skill), and producing the
\* report changes no stored mastery.
C19_GradeByMean ==
    [][\A s \in Sessions :
          (pc[s] = "cycle" /\ pc'[s] = "done")
          => /\ report'[s] = StatedGrade(UserSkills)
             /\ UserSkills' = UserSkills]_vars

\* The call of session s1 was in the critical regime.
InCriticalRegime ==
    /\ pc["s1"] = "selected"
    /\ select_path["s1"] \in {"critical_alternative", "critical_max_diff",
                              "critical_self"}

\* The candidates that remain in the critical regime as it is stated: the
\* caller's set without the lowest-mastery skill and without every skill at
\* or above HIGH.
StatedRemainder ==
    {skill \in universe["s1"] \ {recommended_skill["s1"]} :
        Level(bkt["s1"], skill) < HIGH_SKILL_THRESHOLD}

\* C21: in the critical regime, when every remaining candidate is itself
\* critical, the skill returned is a remaining candidate of the largest
\* recommended-difficulty upper bound, never the removed skill.
C21_AllCriticalTakesLargestUpperBound ==
    (InCriticalRegime
        /\ StatedRemainder # {}
        /\ \A skill \in StatedRemainder :
              Level(bkt["s1"], skill) < CRITICAL_SKILL_THRESHOLD)
    => /\ skill_to_focus["s1"] \in StatedRemainder
       /\ skill_to_focus["s1"] # recommended_skill["s1"]
       /\ \A other \in StatedRemainder :
             get_recommended_difficulty_range(bkt["s1"], skill_to_focus["s1"])[2]
                >= get_recommended_difficulty_range(bkt["s1"], other)[2]

\* C22: in the critical regime the original critical skill is returned when
\* no candidate remains, and only then.
C22_CriticalSelfOnlyWithoutCandidates ==
    InCriticalRegime
    => (StatedRemainder = {} <=> skill_to_focus["s1"] = recommended_skill["s1"])

\* C28: in every regime the skill returned is a member of the set the
\* caller passed.
C28_SelectedInUniverse ==
    pc["s1"] = "selected" => skill_to_focus["s1"] \in universe["s1"]

\* C23: FETCH_EXISTING never yields a task whose id is in used_task_ids of
\* the session: the lookup excludes the ids presented in the session, and
\* without another match it is a miss.
C23_FetchExcludesUsed ==
    [][\A s \in Sessions :
          (pc[s] = "fetch" /\ pc'[s] = "dedup")
          => task'[s].id \notin used_task_ids[s]]_vars

\* C24: a fetch/regenerate run changes nothing but used_task_ids, and that
\* only on ACCEPT: the task store and the masteries stay as they were.
C24_FetchRunOnlyAddsUsedId ==
    [][\A s \in Sessions :
          (pc[s] \in {"fetch", "generate", "dedup"} /\ pc'[s] # pc[s])
          => /\ Tasks' = Tasks
             /\ bkt' = bkt
             /\ UserSkills' = UserSkills
             /\ (used_task_ids'[s] # used_task_ids[s] => pc'[s] = "judge")]_vars

\* C29: in a cycle that obtains a task, the skill whose mastery is updated
\* is the skill select_skill_for_task chose, and no other mastery changes.
C29_UpdatedSkillIsSelected ==
    [][\A s \in Sessions :
          (pc[s] = "judge" /\ pc'[s] # "judge")
          => /\ update_result'[s].skill = skill_to_focus[s]
             /\ \A k \in AllSkills \ {skill_to_focus[s]} :
                   /\ Has(bkt'[s], k) = Has(bkt[s], k)
                   /\ Get(bkt'[s], k, -1) = Get(bkt[s], k, -1)]_vars

\* The update calls made so far, over all skills.
RECURSIVE SumAttempts(_)
SumAttempts(skills) ==
    IF skills = {} THEN 0
    ELSE LET k == CHOOSE k \in skills : TRUE
         IN  attempts[k] + SumAttempts(skills \ {k})

\* The finished cycles of session s that obtained a task.
JudgedCycles(s) == {i \in 1..Len(cycle_log[s]) : cycle_log[s][i] # 0}

\* C26: a session of N cycles makes exactly N cycle attempts one after the
\* other, each with one mastery update when a task was obtained and none
\* when it was skipped, and the report is produced exactly once, after the
\* last cycle, also when cycles were skipped.
C26_CyclesThenOneReport ==
    /\ [](\A s \in {"s1"} :
            /\ Len(cycle_log[s]) = cycle[s]
            /\ cycle[s] <= cycles
            /\ SumAttempts(AllSkills) =
                  Cardinality(JudgedCycles(s))
                     + (IF pc[s] \in {"save_attempt", "save_bkt"} THEN 1 ELSE 0)
            /\ (report[s] # None) = (pc[s] = "done")
            /\ pc[s] = "done" => cycle[s] = cycles)
    /\ [][\A s \in {"s1"} :
            /\ cycle'[s] \in {cycle[s], cycle[s] + 1}
            /\ report'[s] # report[s]
                  => (report[s] = None /\ cycle[s] = cycles /\ pc'[s] = "done")]_vars

\* Every cycle of the session was skipped and the report was produced.
C26_Witness ==
    /\ pc["s1"] = "done"
    /\ report["s1"] # None
    /\ Len(cycle_log["s1"]) = cycles
    /\ cycles > 0
    /\ JudgedCycles("s1") = {}

C27_UpdateTouchesOneEntry ==
    [][/\ bktParams' = bktParams
       /\ calls' = calls + 1
             => LET skill == update_result'["s1"].skill
                IN  /\ \A k \in Keys(bkt["s1"]) \ {skill} :
                          /\ Has(bkt'["s1"], k)
                          /\ Get(bkt'["s1"], k, -1) = Get(bkt["s1"], k, -1)
                    /\ Keys(bkt["s1"]) \subseteq Keys(bkt'["s1"])
                    /\ Keys(bkt'["s1"]) \subseteq Keys(bkt["s1"]) \cup {skill}
       /\ calls' = calls => bkt' = bkt]_vars

\* A second update created the entry of another skill beside the first one,
\* and the mapping was read.
C27_Witness ==
    /\ calls = 2
    /\ Len(bkt["s1"]) = 2
    /\ bkt["s1"][2].k = LastUpdate.skill
    /\ recommended_skill["s1"] = bkt["s1"][1].k
    /\ difficulty_range["s1"] # <<0, 0>>

====
